---- MODULE Spec2Model ----
\* Order-payment saga of the order-service (OrderService.createOrder,
\* OrderService.retryPayment, ProductService stock ledger) and the
\* payment-service PaymentService.processPayment.  Every await on the
\* database or the message broker is one atomic step; concurrent HTTP
\* calls are independent processes interleaving their steps.
EXTENDS Integers, FiniteSets, Sequences, TLC

\* ---------------------------------------------------------------- bounds
NumProcs == 2
MaxOrders == 2
MaxRetries == 2
\* createOrder and retryPayment calls that get past their first check, together
MaxCalls == 3
MaxQty == 2
StockInit == 2
MaxInflight == 1
MaxDbFails == 1

Procs == 1..NumProcs
OrderIds == 1..MaxOrders
Qtys == 1..MaxQty

\* paymentId column: NULL in the database, UNDEF when the in-memory entity
\* never had the property assigned (TypeORM save skips undefined columns).
NULL == 0
UNDEF == -1

\* const isSuccess = true  (payment.service.ts)
\* a processPayment whose simulated outcome is a decline
IsSuccessFalse == FALSE

IsSuccess == TRUE

\* breaker.fallback(...) is registered by CircuitBreakerService.createBreaker
HasFallback == TRUE

\* the ways the breaker fails a call: open circuit, transport error, timeout
BreakerFailures == {"open", "transport", "timeout"}

\* price of the seeded product, in cents (LAPTOP-001: 1999.99)
UnitPrice == 199999

Statuses == {"NONE", "PENDING", "PAYMENT_PROCESSING", "PAYMENT_SUCCESS",
             "PAYMENT_FAILED", "PAYMENT_QUEUED_DLQ"}

VARIABLES
  stock,      \* products[P].stockQuantity
  orders,     \* orders table: id -> [status, paymentId, quantity]
  nextOrder,  \* next order id to be generated
  payments,   \* payments table: set of [id, order, status]
  inflight,   \* payment requests whose response timed out, still queued
  pc,         \* position of each concurrent call
  ord,        \* order id the call works on
  qty,        \* quantity the call works on
  loc,        \* the call's in-memory Order entity [status, paymentId]
  rd,         \* stockQuantity read by findByProductCode in the pending mutation
  reserved,   \* number of successful decrementStock per order
  restored,   \* number of incrementStock per order
  retries,    \* retryPayment calls that passed the status check
  dlq,        \* envelopes sent to payment_dlq
  dbFails,    \* repository calls that threw
  st0,        \* stockQuantity when the call passed its checks
  reply,      \* each call's payment request, its answer, and the value fire resolved to
  sel         \* the order row loaded by the SELECT of the call's pending save

\* CircuitBreakerService
VARIABLES
  breakers,   \* the breakers Map: name -> instance number (0 = absent)
  instances,  \* the opossum instances created, in order: [name, opts]
  regCalls    \* createBreaker calls made: [name, opts, ret]

\* DLQService.shouldRetryPayment, applied to one envelope
VARIABLES
  pAttempt,   \* message.attemptCount
  pAge,       \* Date.now() - firstAttemptAt, in ms
  pReason,    \* message.failureReason
  pDecision   \* <<returned boolean>>, <<>> before the call

\* retryPayment call ghost, manual reprocessing, payment-service deliveries
VARIABLES
  decOk,          \* the retryPayment call's decrementStock has succeeded
  reprocessCalls, \* DLQController.reprocessOrder calls per order
  redispatched,   \* envelopes re-dispatched by manual reprocessing, per order
  pdKind,         \* kind of each message delivery to the payment service
  pdAttempt,      \* attemptCount carried by a dead-letter delivery
  pdPhase,        \* "none", "delivered", "done"
  settle          \* channel settlements of each delivery, in order

sagaVars == <<stock, orders, nextOrder, payments, inflight, pc, ord, qty,
              loc, rd, reserved, restored, retries, dlq, dbFails, st0, reply, sel>>

regVars == <<breakers, instances, regCalls>>

policyVars == <<pAttempt, pAge, pReason, pDecision>>

reprocVars == <<reprocessCalls, redispatched>>

procVars == <<pdKind, pdAttempt, pdPhase, settle>>

extVars == <<decOk, reprocVars, procVars>>

vars == <<sagaVars, regVars, policyVars, extVars>>

NoEntity == [status |-> "NONE", paymentId |-> UNDEF]

\* the answer a call holds from the payment service
NoReply == [st |-> "none", status |-> "none", paymentId |-> NULL]

\* the value fire resolved to: the payment answer, or the fallback object
\* (which has no status field)
Resolved(status, id) == [st |-> "resolved", status |-> status, paymentId |-> id]

\* ---------------------------------------------------------- other components

\* breaker names and the (options, action) pairs passed to createBreaker
RegNames == {"payment-service", "inventory-service"}
RegOptions == {"opts1", "opts2"}
MaxRegCalls == 5

MaxDeliveries == 2
Deliveries == 1..MaxDeliveries
MaxReprocess == 2

ExtInit ==
  /\ decOk = [p \in Procs |-> FALSE]
  /\ reprocessCalls = [o \in OrderIds |-> 0]
  /\ redispatched = [o \in OrderIds |-> 0]
  /\ pdKind = [d \in Deliveries |-> "none"]
  /\ pdAttempt = [d \in Deliveries |-> 0]
  /\ pdPhase = [d \in Deliveries |-> "none"]
  /\ settle = [d \in Deliveries |-> <<>>]

\* the options OrderService's constructor passes for its payment-service breaker
PaymentBreakerOptions == "opts1"

\* after construction: OrderService's constructor (initializeCircuitBreaker)
\* has called createBreaker('payment-service', action, options) once
RegistryInit ==
  /\ breakers = [n \in RegNames |-> IF n = "payment-service" THEN 1 ELSE 0]
  /\ instances = <<[name |-> "payment-service", opts |-> PaymentBreakerOptions]>>
  /\ regCalls = <<[name |-> "payment-service", opts |-> PaymentBreakerOptions, ret |-> 1]>>

\* envelope inputs of shouldRetryPayment
MaxAttempt == 4
Ages == {0, 1800000, 3599999, 3600000, 5400000}
\* failure reasons: the payment decline reasons, the breaker message, and variants
PolicyReasons == {"Payment gateway timeout", "Insufficient funds", "Insufficient stock",
                  "Invalid card number", "Card Invalid", "invalid amount",
                  "Circuit breaker is open - payment service unavailable"}

PolicyIdle ==
  /\ pAttempt = 1
  /\ pAge = 0
  /\ pReason = "Payment gateway timeout"
  /\ pDecision = <<>>

SagaInit ==
  /\ stock = StockInit
  /\ orders = [o \in OrderIds |-> [status |-> "NONE", paymentId |-> NULL, quantity |-> 0,
                                    unitPrice |-> 0, totalAmount |-> 0]]
  /\ nextOrder = 1
  /\ payments = {}
  /\ inflight = [o \in OrderIds |-> 0]
  /\ pc = [p \in Procs |-> "idle"]
  /\ ord = [p \in Procs |-> 0]
  /\ qty = [p \in Procs |-> 0]
  /\ loc = [p \in Procs |-> NoEntity]
  /\ rd = [p \in Procs |-> 0]
  /\ reserved = [o \in OrderIds |-> 0]
  /\ restored = [o \in OrderIds |-> 0]
  /\ retries = 0
  /\ dlq = {}
  /\ dbFails = 0
  /\ st0 = [p \in Procs |-> 0]
  /\ reply = [p \in Procs |-> NoReply]
  /\ sel = [p \in Procs |-> NoEntity]

Init == SagaInit /\ RegistryInit /\ PolicyIdle /\ ExtInit

\* ---------------------------------------------------------- helpers

\* a validation that only rejects an empty stock
ValidateFailsStockOnly(s, q) == s <= 0

\* ProductService.validateAndGetProduct + the quantity check of the caller
ValidateFails(s, q) == s <= 0 \/ s < q

\* decrementStock without its stock guard
DecrementAllowedNoGuard(r, q) == TRUE

\* ProductService.decrementStock guard
DecrementAllowed(r, q) == ~(r < q)

\* Payment.id (uuid): a fresh label, the k-th record saved for order o
PayId(o, k) == 100 * o + k

\* PaymentService.processPayment: saves a new Payment record (status from
\* isSuccess) and answers with its id and status.
ProcessPayment(pays, o) ==
  LET rec == [id |-> PayId(o, Cardinality({x \in pays : x.order = o}) + 1),
              order |-> o,
              status |-> IF IsSuccess THEN "SUCCESS" ELSE "FAILED"]
  IN [pays |-> pays \cup {rec},
      resp |-> [status |-> rec.status, paymentId |-> rec.id]]

SuccessIds(pays, o) == {r.id : r \in {x \in pays : x.order = o /\ x.status = "SUCCESS"}}

\* orderRepository.save(entity) of a persisted entity, first phase: the
\* SELECT of its row by id
SaveSelect(p) ==
  sel' = [sel EXCEPT ![p] = [status |-> orders[ord[p]].status,
                             paymentId |-> orders[ord[p]].paymentId]]

\* second phase: UPDATE of the columns whose entity value differs from the row
\* r the SELECT loaded (an undefined property is not a change)
SaveEntity(o, e, r) ==
  orders' = [orders EXCEPT ![o].status = IF e.status # r.status THEN e.status ELSE @,
                           ![o].paymentId = IF e.paymentId # UNDEF /\ e.paymentId # r.paymentId
                                              THEN e.paymentId ELSE @]

\* no payment record, retry count or dead-letter envelope
PayUnchanged == UNCHANGED <<payments, retries, dlq>>

\* a finished call keeps no local state
Cleared(p) ==
  /\ ord' = [ord EXCEPT ![p] = 0]
  /\ qty' = [qty EXCEPT ![p] = 0]
  /\ loc' = [loc EXCEPT ![p] = NoEntity]
  /\ rd' = [rd EXCEPT ![p] = 0]
  /\ st0' = [st0 EXCEPT ![p] = 0]
  /\ reply' = [reply EXCEPT ![p] = NoReply]

\* A repository call (orderRepository / productRepository) that throws: the
\* database is untouched and the exception goes to handler onFail: "idle"
\* when it leaves the call; otherwise a catch block of retryPayment, which has
\* set order.status = 'PAYMENT_FAILED' (outer catch, lines 276-278) or is
\* already past that assignment (inner catch around incrementStock, 282).
DbThrow(p, onFail) ==
  /\ dbFails < MaxDbFails
  /\ dbFails' = dbFails + 1
  /\ pc' = [pc EXCEPT ![p] = onFail]
  /\ sel' = [sel EXCEPT ![p] = NoEntity]
  /\ IF onFail = "idle"
       THEN Cleared(p)
       ELSE /\ loc' = [loc EXCEPT ![p].status = "PAYMENT_FAILED"]
            /\ rd' = [rd EXCEPT ![p] = 0]
            /\ UNCHANGED <<ord, qty, st0, reply>>

\* what a throwing repository call leaves alone
DbUntouched ==
  UNCHANGED <<stock, orders, nextOrder, inflight, reserved, restored, payments, retries, dlq>>

\* ---------------------------------------------------------- createOrder

\* validateAndGetProduct + stock check (throws before any side effect).
\* The uuid the insert will generate is drawn here, as a fresh label.
CreateValidate(p, q) ==
  /\ pc[p] = "idle"
  /\ nextOrder <= MaxOrders
  /\ (nextOrder - 1) + retries < MaxCalls
  /\ \/ /\ IF ValidateFails(stock, q)
             THEN /\ pc' = [pc EXCEPT ![p] = "idle"]
                  /\ UNCHANGED <<nextOrder, ord, qty, st0>>
             ELSE /\ pc' = [pc EXCEPT ![p] = "c_saveNew"]
                  /\ qty' = [qty EXCEPT ![p] = q]
                  /\ ord' = [ord EXCEPT ![p] = nextOrder]
                  /\ st0' = [st0 EXCEPT ![p] = stock]
                  /\ nextOrder' = nextOrder + 1
        /\ UNCHANGED <<stock, orders, inflight, loc, rd, reserved, restored, dbFails, reply>>
        /\ PayUnchanged
        /\ UNCHANGED sel
     \/ DbThrow(p, "idle") /\ DbUntouched

\* totalAmount computed without the quantity
CreateSaveNewNoQty(p) ==
  /\ pc[p] = "c_saveNew"
  /\ \/ /\ orders' = [orders EXCEPT ![ord[p]] = [status |-> "PENDING", paymentId |-> NULL,
                                                quantity |-> qty[p], unitPrice |-> UnitPrice,
                                                totalAmount |-> UnitPrice]]
        /\ loc' = [loc EXCEPT ![p] = [status |-> "PENDING", paymentId |-> UNDEF]]
        /\ pc' = [pc EXCEPT ![p] = "c_decRead"]
        /\ UNCHANGED <<stock, nextOrder, inflight, ord, qty, rd, reserved, restored, st0, dbFails, reply>>
        /\ PayUnchanged
        /\ UNCHANGED sel
     \/ DbThrow(p, "idle") /\ DbUntouched

\* orderRepository.create + save(order) with status PENDING;
\* totalAmount = unitPrice * quantity.  A throwing insert leaves no row.
CreateSaveNew(p) ==
  /\ pc[p] = "c_saveNew"
  /\ \/ /\ orders' = [orders EXCEPT ![ord[p]] = [status |-> "PENDING", paymentId |-> NULL,
                                                quantity |-> qty[p], unitPrice |-> UnitPrice,
                                                totalAmount |-> UnitPrice * qty[p]]]
        /\ loc' = [loc EXCEPT ![p] = [status |-> "PENDING", paymentId |-> UNDEF]]
        /\ pc' = [pc EXCEPT ![p] = "c_decRead"]
        /\ UNCHANGED <<stock, nextOrder, inflight, ord, qty, rd, reserved, restored, st0, dbFails, reply>>
        /\ PayUnchanged
        /\ UNCHANGED sel
     \/ DbThrow(p, "idle") /\ DbUntouched

\* ---------------------------------------------------------- stock ledger

\* ProductService.decrementStock, first await: findByProductCode and the
\* stock guard; a failing guard throws ConflictException, and so does a
\* throwing read.
DecRead(p, here, next, onFail) ==
  /\ pc[p] = here
  /\ \/ /\ DecrementAllowed(stock, qty[p])
        /\ pc' = [pc EXCEPT ![p] = next]
        /\ rd' = [rd EXCEPT ![p] = stock]
        /\ UNCHANGED <<loc, ord, qty, st0, dbFails, reply>>
        /\ UNCHANGED <<stock, orders, nextOrder, inflight, reserved, restored>>
        /\ PayUnchanged
        /\ UNCHANGED sel
     \/ /\ ~DecrementAllowed(stock, qty[p])
        /\ pc' = [pc EXCEPT ![p] = onFail]
        /\ IF onFail = "idle"
             \* createOrder: the exception propagates, order stays PENDING
             THEN Cleared(p)
             \* retryPayment's catch block: order.status = 'PAYMENT_FAILED'
             ELSE /\ loc' = [loc EXCEPT ![p].status = "PAYMENT_FAILED"]
                  /\ UNCHANGED <<rd, ord, qty, st0, reply>>
        /\ UNCHANGED <<stock, orders, nextOrder, inflight, reserved, restored, dbFails>>
        /\ PayUnchanged
        /\ UNCHANGED sel
     \/ DbThrow(p, onFail) /\ DbUntouched

\* ProductService.decrementStock, second await: save(product) with the
\* quantity computed from the value read before.
DecWrite(p, here, next, onFail) ==
  /\ pc[p] = here
  /\ \/ /\ stock' = rd[p] - qty[p]
        /\ reserved' = [reserved EXCEPT ![ord[p]] = @ + 1]
        /\ pc' = [pc EXCEPT ![p] = next]
        /\ rd' = [rd EXCEPT ![p] = 0]
        /\ UNCHANGED <<orders, nextOrder, inflight, ord, qty, loc, restored, st0, dbFails, reply>>
        /\ PayUnchanged
        /\ UNCHANGED sel
     \/ DbThrow(p, onFail) /\ DbUntouched

\* ProductService.incrementStock, first await: findByProductCode
IncRead(p, here, next, onFail) ==
  /\ pc[p] = here
  /\ \/ /\ rd' = [rd EXCEPT ![p] = stock]
        /\ pc' = [pc EXCEPT ![p] = next]
        /\ UNCHANGED <<stock, orders, nextOrder, inflight, ord, qty, loc, reserved, restored,
                       st0, dbFails, reply>>
        /\ PayUnchanged
        /\ UNCHANGED sel
     \/ DbThrow(p, onFail) /\ DbUntouched

\* an incrementStock that saves the value read without adding
IncWriteNoAdd(p, here, next, onFail) ==
  /\ pc[p] = here
  /\ \/ /\ stock' = rd[p]
        /\ restored' = [restored EXCEPT ![ord[p]] = @ + 1]
        /\ pc' = [pc EXCEPT ![p] = next]
        /\ rd' = [rd EXCEPT ![p] = 0]
        /\ UNCHANGED <<orders, nextOrder, inflight, ord, qty, loc, reserved, st0, dbFails, reply>>
        /\ PayUnchanged
        /\ UNCHANGED sel
     \/ DbThrow(p, onFail) /\ DbUntouched

\* ProductService.incrementStock, second await: save(product)
IncWrite(p, here, next, onFail) ==
  /\ pc[p] = here
  /\ \/ /\ stock' = rd[p] + qty[p]
        /\ restored' = [restored EXCEPT ![ord[p]] = @ + 1]
        /\ pc' = [pc EXCEPT ![p] = next]
        /\ rd' = [rd EXCEPT ![p] = 0]
        /\ UNCHANGED <<orders, nextOrder, inflight, ord, qty, loc, reserved, st0, dbFails, reply>>
        /\ PayUnchanged
        /\ UNCHANGED sel
     \/ DbThrow(p, onFail) /\ DbUntouched

\* ---------------------------------------------------------- saga steps

\* status = 'PAYMENT_PROCESSING'; orderRepository.save(order), a SELECT then an
\* UPDATE of the changed columns.  Either query can
\* throw: createOrder has no handler around it, so the exception propagates;
\* retryPayment's outer catch sets PAYMENT_FAILED and restores the stock.
SaveProcessing(p, here, next, onFail) ==
  /\ pc[p] = here
  /\ \/ /\ sel[p] = NoEntity
        /\ loc' = [loc EXCEPT ![p].status = "PAYMENT_PROCESSING"]
        /\ SaveSelect(p)
        /\ UNCHANGED <<pc, orders, ord, qty, rd, st0, dbFails, reply>>
        /\ UNCHANGED <<stock, nextOrder, inflight, reserved, restored>>
        /\ PayUnchanged
     \/ /\ sel[p] # NoEntity
        /\ SaveEntity(ord[p], loc[p], sel[p])
        /\ sel' = [sel EXCEPT ![p] = NoEntity]
        /\ pc' = [pc EXCEPT ![p] = next]
        /\ UNCHANGED <<loc, ord, qty, rd, st0, dbFails, reply>>
        /\ UNCHANGED <<stock, nextOrder, inflight, reserved, restored>>
        /\ PayUnchanged
     \/ DbThrow(p, onFail) /\ DbUntouched

\* A call whose breaker failed resolves with the fallback object (no status)
\* when a fallback is registered; otherwise fire rejects, and createOrder's
\* catch (toDlq) calls dlqService.sendToDeadLetterQueue(paymentRequest, error, 1),
\* which queues the envelope and updates the order to PAYMENT_QUEUED_DLQ.
BreakerFailed(p, kind, failNext, toDlq) ==
  /\ loc' = [loc EXCEPT ![p].status = "PAYMENT_FAILED"]
  /\ pc' = [pc EXCEPT ![p] = failNext]
  /\ reply' = [reply EXCEPT ![p] = Resolved(IF HasFallback THEN "undefined" ELSE "FAILED", NULL)]
  /\ IF HasFallback \/ ~toDlq
       THEN UNCHANGED <<orders, dlq>>
       ELSE /\ dlq' = dlq \cup {[order |-> ord[p], attemptCount |-> 1, reason |-> kind]}
            /\ orders' = [orders EXCEPT ![ord[p]].status = "PAYMENT_QUEUED_DLQ"]

\* paymentCircuitBreaker.fire(paymentRequest), the send: an open circuit
\* fails the call at once, otherwise the request goes to payment_queue and
\* the call awaits the answer.
FireSend(p, here, awaitAt, failNext, toDlq) ==
  /\ pc[p] = here
  /\ \/ /\ reply' = [reply EXCEPT ![p] = [NoReply EXCEPT !.st = "sent"]]
        /\ pc' = [pc EXCEPT ![p] = awaitAt]
        /\ UNCHANGED <<loc, orders, dlq>>
     \/ BreakerFailed(p, "open", failNext, toDlq)
  /\ UNCHANGED <<stock, nextOrder, payments, inflight, ord, qty, rd, reserved, restored,
                 retries, dbFails, st0, sel>>

\* PaymentController.processPayment handling a request a call awaits:
\* PaymentService.processPayment saves the Payment record and the answer
\* carries its id and status; a throwing save is caught and answered
\* with status FAILED and no record.
PaymentServe(p) ==
  /\ reply[p].st = "sent"
  /\ \/ /\ LET res == ProcessPayment(payments, ord[p]) IN
           /\ payments' = res.pays
           /\ reply' = [reply EXCEPT ![p] = [st |-> "answered", status |-> res.resp.status,
                                             paymentId |-> res.resp.paymentId]]
        /\ UNCHANGED dbFails
     \/ /\ dbFails < MaxDbFails
        /\ dbFails' = dbFails + 1
        /\ reply' = [reply EXCEPT ![p] = [st |-> "answered", status |-> "FAILED",
                                          paymentId |-> NULL]]
        /\ UNCHANGED payments
  /\ UNCHANGED <<stock, orders, nextOrder, inflight, pc, ord, qty, loc, rd, reserved, restored,
                 retries, dlq, st0, sel>>

\* the awaiting call resumes: with the answer (paymentResponse.status
\* decides), or the breaker fails the call before the answer arrives
\* (transport error, or the 30 s timeout, which also fires while an answer
\* is in transit; a timed-out request not yet processed stays queued and may
\* still be processed later).
FireResume(p, here, succNext, failNext, toDlq) ==
  /\ pc[p] = here
  /\ \/ /\ reply[p].st = "answered"
        /\ IF reply[p].status = "SUCCESS"
             THEN /\ loc' = [loc EXCEPT ![p] = [status |-> "PAYMENT_SUCCESS",
                                                paymentId |-> reply[p].paymentId]]
                  /\ pc' = [pc EXCEPT ![p] = succNext]
             ELSE /\ loc' = [loc EXCEPT ![p].status = "PAYMENT_FAILED"]
                  /\ pc' = [pc EXCEPT ![p] = failNext]
        /\ reply' = [reply EXCEPT ![p] = Resolved(reply[p].status, reply[p].paymentId)]
        /\ UNCHANGED <<inflight, orders, dlq>>
     \/ /\ reply[p].st \in {"sent", "answered"}
        /\ \E kind \in BreakerFailures \ {"open"} :
           /\ (kind = "timeout" /\ reply[p].st = "sent") => inflight[ord[p]] < MaxInflight
           /\ inflight' = IF kind = "timeout" /\ reply[p].st = "sent"
                            THEN [inflight EXCEPT ![ord[p]] = @ + 1]
                            ELSE inflight
           /\ BreakerFailed(p, kind, failNext, toDlq)
  /\ UNCHANGED <<stock, nextOrder, payments, ord, qty, rd, reserved, restored, retries,
                 dbFails, st0, sel>>

\* final orderRepository.save of the saga step (SELECT, then UPDATE of the
\* changed columns); a throw goes to onFail
SaveFinal(p, here, onFail) ==
  /\ pc[p] = here
  /\ \/ /\ sel[p] = NoEntity
        /\ SaveSelect(p)
        /\ UNCHANGED <<pc, orders, ord, qty, loc, rd, st0, reply>>
        /\ UNCHANGED <<stock, nextOrder, inflight, reserved, restored, dbFails>>
        /\ PayUnchanged
     \/ /\ sel[p] # NoEntity
        /\ SaveEntity(ord[p], loc[p], sel[p])
        /\ sel' = [sel EXCEPT ![p] = NoEntity]
        /\ pc' = [pc EXCEPT ![p] = "idle"]
        /\ Cleared(p)
        /\ UNCHANGED <<stock, nextOrder, inflight, reserved, restored, dbFails>>
        /\ PayUnchanged
     \/ DbThrow(p, onFail) /\ DbUntouched

\* ---------------------------------------------------------- retryPayment

\* a status check that only refuses PAYMENT_SUCCESS
RetryAllowedNotSuccess(s) == s # "PAYMENT_SUCCESS"

\* the status check of retryPayment: only PAYMENT_FAILED may be retried
RetryAllowed(s) == s = "PAYMENT_FAILED"

\* orderRepository.findOne + the status checks (throw: no side effect)
RetryLoad(p, o) ==
  /\ pc[p] = "idle"
  /\ orders[o].status # "NONE"
  /\ retries < MaxRetries
  /\ (nextOrder - 1) + retries < MaxCalls
  /\ \/ /\ IF RetryAllowed(orders[o].status)
             THEN /\ pc' = [pc EXCEPT ![p] = "r_validate"]
                  /\ retries' = retries + 1
                  /\ ord' = [ord EXCEPT ![p] = o]
                  /\ qty' = [qty EXCEPT ![p] = orders[o].quantity]
                  /\ loc' = [loc EXCEPT ![p] = [status |-> orders[o].status,
                                                paymentId |-> orders[o].paymentId]]
                  /\ st0' = [st0 EXCEPT ![p] = stock]
             ELSE /\ pc' = [pc EXCEPT ![p] = "idle"]
                  /\ UNCHANGED <<ord, qty, loc, retries, st0>>
        /\ UNCHANGED <<stock, orders, nextOrder, inflight, rd, reserved, restored>>
        /\ UNCHANGED <<payments, dlq, dbFails, reply, sel>>
     \/ DbThrow(p, "idle") /\ DbUntouched

\* validateAndGetProduct + stock check (throws before any side effect)
RetryValidate(p) ==
  /\ pc[p] = "r_validate"
  /\ \/ /\ IF ValidateFails(stock, qty[p])
             THEN /\ pc' = [pc EXCEPT ![p] = "idle"]
                  /\ Cleared(p)
             ELSE /\ pc' = [pc EXCEPT ![p] = "r_decRead"]
                  /\ UNCHANGED <<ord, qty, loc, rd, st0, reply>>
        /\ UNCHANGED <<stock, orders, nextOrder, inflight, reserved, restored, dbFails>>
        /\ PayUnchanged
        /\ UNCHANGED sel
     \/ DbThrow(p, "idle") /\ DbUntouched

\* ---------------------------------------------------------- payment service

\* a timed-out request is still consumed by the payment service; its record
\* save may throw (caught, no record)
PaymentLate(o) ==
  /\ inflight[o] > 0
  /\ inflight' = [inflight EXCEPT ![o] = @ - 1]
  /\ \/ /\ payments' = ProcessPayment(payments, o).pays
        /\ UNCHANGED dbFails
     \/ /\ dbFails < MaxDbFails
        /\ dbFails' = dbFails + 1
        /\ UNCHANGED payments
  /\ UNCHANGED <<stock, orders, nextOrder, pc, ord, qty, loc, rd, reserved, restored,
                 retries, dlq, st0, reply, sel>>

\* ---------------------------------------------------------- specification

CreateOrder(p) ==
  \/ \E q \in Qtys : CreateValidate(p, q)
  \/ CreateSaveNew(p)
  \/ DecRead(p, "c_decRead", "c_decWrite", "idle")
  \/ DecWrite(p, "c_decWrite", "c_saveProcessing", "idle")
  \/ SaveProcessing(p, "c_saveProcessing", "c_fire", "idle")
  \/ FireSend(p, "c_fire", "c_await", "c_incRead", TRUE)
  \/ FireResume(p, "c_await", "c_saveFinal", "c_incRead", TRUE)
  \/ IncRead(p, "c_incRead", "c_incWrite", "idle")
  \/ IncWrite(p, "c_incWrite", "c_saveFinal", "idle")
  \/ SaveFinal(p, "c_saveFinal", "idle")

\* the try block (219-274) throws to the outer catch (r_catchIncRead); the
\* catch's incrementStock throws to its own catch (r_catchSave); the catch's
\* save (285) throws out of the call
RetryPayment(p) ==
  \/ \E o \in OrderIds : RetryLoad(p, o)
  \/ RetryValidate(p)
  \/ DecRead(p, "r_decRead", "r_decWrite", "r_catchIncRead")
  \/ DecWrite(p, "r_decWrite", "r_saveProcessing", "r_catchIncRead")
  \/ SaveProcessing(p, "r_saveProcessing", "r_fire", "r_catchIncRead")
  \/ FireSend(p, "r_fire", "r_await", "r_incRead", FALSE)
  \/ FireResume(p, "r_await", "r_saveFinal", "r_incRead", FALSE)
  \/ IncRead(p, "r_incRead", "r_incWrite", "r_catchIncRead")
  \/ IncWrite(p, "r_incWrite", "r_saveFinal", "r_catchIncRead")
  \/ SaveFinal(p, "r_saveFinal", "r_catchIncRead")
  \/ IncRead(p, "r_catchIncRead", "r_catchIncWrite", "r_catchSave")
  \/ IncWrite(p, "r_catchIncWrite", "r_catchSave", "r_catchSave")
  \/ SaveFinal(p, "r_catchSave", "idle")

\* decOk of a retryPayment call: set by its decrementStock write, cleared when it returns
DecGhost(p) ==
  decOk' = [decOk EXCEPT ![p] = IF pc[p] = "r_decWrite" /\ pc'[p] = "r_saveProcessing" THEN TRUE
                                ELSE IF pc'[p] = "idle" THEN FALSE ELSE @]

Next ==
  \/ \E p \in Procs : CreateOrder(p) /\ UNCHANGED <<regVars, policyVars, extVars>>
  \/ \E p \in Procs : RetryPayment(p) /\ DecGhost(p)
                     /\ UNCHANGED <<regVars, policyVars, reprocVars, procVars>>
  \/ \E p \in Procs : PaymentServe(p) /\ UNCHANGED <<regVars, policyVars, extVars>>
  \/ \E o \in OrderIds : PaymentLate(o) /\ UNCHANGED <<regVars, policyVars, extVars>>

Spec == Init /\ [][Next]_vars

\* ---------------------------------------------------------- CircuitBreakerService

OtherThanRegistry == UNCHANGED <<sagaVars, policyVars, extVars>>

\* a createBreaker that does not look up the Map first
CreateBreakerNoReuse(n, o) ==
  /\ Len(regCalls) < MaxRegCalls
  /\ LET i == Len(instances) + 1 IN
       /\ instances' = Append(instances, [name |-> n, opts |-> o])
       /\ breakers' = [breakers EXCEPT ![n] = i]
       /\ regCalls' = Append(regCalls, [name |-> n, opts |-> o, ret |-> i])
  /\ OtherThanRegistry

\* createBreaker(name, action, options): an existing breaker of that name is
\* returned as is; otherwise a new opossum instance is built, stored and returned
CreateBreaker(n, o) ==
  /\ Len(regCalls) < MaxRegCalls
  /\ IF breakers[n] # 0
       THEN /\ regCalls' = Append(regCalls, [name |-> n, opts |-> o, ret |-> breakers[n]])
            /\ UNCHANGED <<breakers, instances>>
       ELSE LET i == Len(instances) + 1 IN
              /\ instances' = Append(instances, [name |-> n, opts |-> o])
              /\ breakers' = [breakers EXCEPT ![n] = i]
              /\ regCalls' = Append(regCalls, [name |-> n, opts |-> o, ret |-> i])
  /\ OtherThanRegistry

RegNext == \E n \in RegNames, o \in RegOptions : CreateBreaker(n, o)

RegSpec == Init /\ [][RegNext]_vars

\* ---------------------------------------------------------- DLQService.shouldRetryPayment

\* String.prototype.includes
Includes(s, t) == \E i \in 0..(Len(s) - Len(t)) : SubSeq(s, i + 1, i + Len(t)) = t

MaxRetriesDlq == 3
MaxRetryWindowMs == 3600000

\* a policy that allows a third retry
ShouldRetryPaymentLe(a, age, r) ==
  /\ a <= MaxRetriesDlq
  /\ age < MaxRetryWindowMs
  /\ ~Includes(r, "Invalid")
  /\ ~Includes(r, "Insufficient")

\* shouldRetryPayment(message), with age = Date.now() - firstAttemptAt
ShouldRetryPayment(a, age, r) ==
  /\ a < MaxRetriesDlq
  /\ age < MaxRetryWindowMs
  /\ ~Includes(r, "Invalid")
  /\ ~Includes(r, "Insufficient")

PolicyInit ==
  /\ SagaInit
  /\ RegistryInit
  /\ ExtInit
  /\ pAttempt \in 0..MaxAttempt
  /\ pAge \in Ages
  /\ pReason \in PolicyReasons
  /\ pDecision = <<>>

EvaluatePolicy ==
  /\ pDecision = <<>>
  /\ pDecision' = <<ShouldRetryPayment(pAttempt, pAge, pReason)>>
  /\ UNCHANGED <<pAttempt, pAge, pReason, sagaVars, regVars, extVars>>

PolicyNext == EvaluatePolicy

PolicySpec == PolicyInit /\ [][PolicyNext]_vars

\* ---------------------------------------------------------- DLQService.reprocessDLQMessage

\* the order reprocessed by hand
ReprocessOrder == 1

\* a reprocessing that re-sends the order's payment request to payment_queue,
\* where the payment service processes it
ReprocessRequeue(o) ==
  /\ reprocessCalls[o] < MaxReprocess
  /\ reprocessCalls' = [reprocessCalls EXCEPT ![o] = @ + 1]
  /\ IF orders[o].status # "NONE"
       THEN /\ payments' = ProcessPayment(payments, o).pays
            /\ redispatched' = [redispatched EXCEPT ![o] = @ + 1]
       ELSE UNCHANGED <<payments, redispatched>>
  /\ UNCHANGED <<stock, orders, nextOrder, inflight, pc, ord, qty, loc, rd, reserved, restored,
                 retries, dlq, dbFails, st0, reply, sel>>
  /\ UNCHANGED <<regVars, policyVars, decOk, procVars>>

\* POST dlq/reprocess/:orderId -> DLQService.reprocessDLQMessage, which only logs
ReprocessDLQMessage(o) ==
  /\ reprocessCalls[o] < MaxReprocess
  /\ reprocessCalls' = [reprocessCalls EXCEPT ![o] = @ + 1]
  /\ UNCHANGED <<sagaVars, regVars, policyVars, decOk, redispatched, procVars>>

\* the saga, and POST dlq/reprocess/:orderId calls for one order
ReprocessNext ==
  \/ Next
  \/ ReprocessDLQMessage(ReprocessOrder)

ReprocessSpec == Init /\ [][ReprocessNext]_vars

\* ---------------------------------------------------------- payment service consumers

\* what a delivery carries: a process_payment request, or a payment_dlq message
\* holding a nested paymentRequest, a bare request, or neither; delivery d is
\* a request for order d
DeliveryKinds == {"process_payment", "dlq_envelope", "dlq_bare", "dlq_invalid"}
DlqKinds == {"dlq_envelope", "dlq_bare", "dlq_invalid"}
MaxSettles == 3

OtherThanProc ==
  UNCHANGED <<stock, orders, nextOrder, inflight, pc, ord, qty, loc, rd, reserved, restored,
              retries, dlq, dbFails, st0, reply, sel>>
  /\ UNCHANGED <<regVars, policyVars, decOk, reprocVars>>

\* the broker delivers a message to the payment service
Deliver(d, k, a) ==
  /\ pdPhase[d] = "none"
  /\ pdKind' = [pdKind EXCEPT ![d] = k]
  /\ pdAttempt' = [pdAttempt EXCEPT ![d] = a]
  /\ pdPhase' = [pdPhase EXCEPT ![d] = "delivered"]
  /\ UNCHANGED <<settle, payments>>
  /\ OtherThanProc

\* PaymentService.processPayment for delivery d: the Payment record is saved,
\* unless the save throws
HandledPayment(d, thrown) ==
  IF thrown THEN UNCHANGED payments ELSE payments' = ProcessPayment(payments, d).pays

\* PaymentController.processPayment: await processPayment (its save may throw),
\* then channel.ack; in the catch channel.nack(msg, false, false)
ControllerHandle(d) ==
  /\ pdPhase[d] = "delivered"
  /\ pdKind[d] = "process_payment"
  /\ \E thrown \in BOOLEAN :
       /\ HandledPayment(d, thrown)
       /\ settle' = [settle EXCEPT ![d] = Append(@, IF thrown THEN "reject" ELSE "ack")]
  /\ pdPhase' = [pdPhase EXCEPT ![d] = "done"]
  /\ UNCHANGED <<pdKind, pdAttempt>>
  /\ OtherThanProc

\* DLQConsumer payment_dlq handler: an unusable message is nacked without requeue;
\* otherwise processPayment runs (a throw nacks without requeue); SUCCESS acks, any
\* other status nacks, with requeue while attemptCount < 3
DlqConsumerHandle(d) ==
  /\ pdPhase[d] = "delivered"
  /\ pdKind[d] \in DlqKinds
  /\ Len(settle[d]) < MaxSettles
  /\ IF pdKind[d] = "dlq_invalid"
       THEN /\ settle' = [settle EXCEPT ![d] = Append(@, "reject")]
            /\ pdPhase' = [pdPhase EXCEPT ![d] = "done"]
            /\ UNCHANGED payments
       ELSE \E thrown \in BOOLEAN :
              /\ HandledPayment(d, thrown)
              /\ IF thrown
                   THEN /\ settle' = [settle EXCEPT ![d] = Append(@, "reject")]
                        /\ pdPhase' = [pdPhase EXCEPT ![d] = "done"]
                 ELSE IF IsSuccess
                   THEN /\ settle' = [settle EXCEPT ![d] = Append(@, "ack")]
                        /\ pdPhase' = [pdPhase EXCEPT ![d] = "done"]
                 ELSE IF pdAttempt[d] >= 3
                   THEN /\ settle' = [settle EXCEPT ![d] = Append(@, "reject")]
                        /\ pdPhase' = [pdPhase EXCEPT ![d] = "done"]
                 ELSE /\ settle' = [settle EXCEPT ![d] = Append(@, "requeue")]
                      /\ UNCHANGED pdPhase
  /\ UNCHANGED <<pdKind, pdAttempt>>
  /\ OtherThanProc

ProcNext ==
  \/ \E d \in Deliveries, k \in DeliveryKinds, a \in 1..3 : Deliver(d, k, a)
  \/ \E d \in Deliveries : ControllerHandle(d)
  \/ \E d \in Deliveries : DlqConsumerHandle(d)

ProcSpec == Init /\ [][ProcNext]_vars


\* ---------------------------------------------------------- properties

\* a call is working on order o
Busy(o) == \E p \in Procs : pc[p] # "idle" /\ ord[p] = o

Created(o) == orders[o].status # "NONE"

NSuccess(o) == Cardinality(SuccessIds(payments, o))

RECURSIVE SumSold(_)
SumSold(S) ==
  IF S = {} THEN 0
  ELSE LET o == CHOOSE x \in S : TRUE IN
       (IF orders[o].status = "PAYMENT_SUCCESS" THEN orders[o].quantity ELSE 0)
       + SumSold(S \ {o})

\* C1: every successful decrementStock of an order is either consumed (the
\* order ends PAYMENT_SUCCESS) or restored by exactly one incrementStock;
\* no incrementStock without a reservation.
C1_ReservationAccounting ==
  \A o \in OrderIds :
    /\ restored[o] <= reserved[o]
    /\ (Created(o) /\ ~Busy(o)) =>
         IF orders[o].status = "PAYMENT_SUCCESS"
           THEN reserved[o] = restored[o] + 1
           ELSE reserved[o] = restored[o]

\* C2: an order in PAYMENT_SUCCESS has exactly one SUCCESS payment record and
\* its reservation was not restored.
C2_SuccessHasOneRecord ==
  \A o \in OrderIds :
    orders[o].status = "PAYMENT_SUCCESS" =>
      /\ NSuccess(o) = 1
      /\ reserved[o] = restored[o] + 1

\* C3: an order that finished in PAYMENT_FAILED or PAYMENT_QUEUED_DLQ has had
\* its whole reserved quantity returned: as many restores as reservations.
C3_FailedIsRestored ==
  \A o \in OrderIds :
    (orders[o].status \in {"PAYMENT_FAILED", "PAYMENT_QUEUED_DLQ"} /\ ~Busy(o))
      => reserved[o] = restored[o]

\* C4: at most one SUCCESS payment record per order reference.
C4_AtMostOneSuccess ==
  \A o \in OrderIds : NSuccess(o) <= 1

\* C5: processPayment for an order that already has a SUCCESS record creates
\* no record and answers with the original payment id.
C5_IdempotentStep ==
  /\ \A o \in OrderIds :
       SuccessIds(payments, o) # {} =>
         {x \in payments' : x.order = o} = {x \in payments : x.order = o}
  /\ \A p \in Procs :
       (/\ pc[p] \in {"c_await", "r_await"}
        /\ pc'[p] \in {"c_saveFinal", "r_saveFinal"}
        /\ SuccessIds(payments, ord[p]) # {})
         => loc'[p].paymentId \in SuccessIds(payments, ord[p])
C5_Idempotent == [][C5_IdempotentStep]_vars

\* C6: stock never goes negative, and a reservation that exceeds the stock
\* fails (no write step follows) and leaves the stock unchanged.
C6_Inv == stock >= 0
C6_Step ==
  \A p \in Procs :
    (/\ pc[p] \in {"c_decRead", "r_decRead"}
     /\ stock < qty[p]
     /\ pc'[p] # pc[p])
      => /\ stock' = stock
         /\ pc'[p] \notin {"c_decWrite", "r_decWrite"}
C6_StockNonNegative == []C6_Inv /\ [][C6_Step]_vars
\* a retry's reservation was refused because a concurrent call took the stock
C6_Witness == stock = 0 /\ \E p \in Procs : pc[p] = "r_catchIncRead"

\* C7: when no call is running, the stock is the initial stock minus the
\* quantities of the orders that ended PAYMENT_SUCCESS.
C7_NoLostUpdate ==
  (\A p \in Procs : pc[p] = "idle") => stock = StockInit - SumSold(OrderIds)

\* C8: no two calls work on the same order at the same time.
C8_PerOrderSerialized ==
  \A p1, p2 \in Procs :
    (p1 # p2 /\ pc[p1] # "idle" /\ pc[p2] # "idle") => ord[p1] # ord[p2]

\* C9: status changes only along the saga state machine; PAYMENT_SUCCESS is
\* never left.
AllowedMoves ==
  {<<"NONE", "PENDING">>, <<"PENDING", "PAYMENT_PROCESSING">>,
   <<"PAYMENT_PROCESSING", "PAYMENT_SUCCESS">>, <<"PAYMENT_PROCESSING", "PAYMENT_FAILED">>,
   <<"PAYMENT_PROCESSING", "PAYMENT_QUEUED_DLQ">>, <<"PAYMENT_FAILED", "PAYMENT_PROCESSING">>}
C9_Step ==
  \A o \in OrderIds :
    orders'[o].status # orders[o].status =>
      <<orders[o].status, orders'[o].status>> \in AllowedMoves
C9_StatusMachine == [][C9_Step]_vars

\* C10: a stored order has a payment id exactly when it is PAYMENT_SUCCESS.
C10_PaymentIdIffSuccess ==
  \A o \in OrderIds :
    Created(o) =>
      ((orders[o].paymentId \notin {NULL, UNDEF}) <=> orders[o].status = "PAYMENT_SUCCESS")
\* an order paid on a retry after an earlier failed attempt
C10_Witness ==
  \E o \in OrderIds :
    /\ orders[o].status = "PAYMENT_SUCCESS"
    /\ orders[o].paymentId # NULL
    /\ restored[o] >= 1


Terminal == {"PAYMENT_SUCCESS", "PAYMENT_FAILED", "PAYMENT_QUEUED_DLQ"}

\* C11: once no call works on an order any more, the order is in a terminal
\* status, never left PENDING or PAYMENT_PROCESSING.
C11_EndsTerminal ==
  \A o \in OrderIds : (Created(o) /\ ~Busy(o)) => orders[o].status \in Terminal

\* C12: once no call works on an order that did not end PAYMENT_SUCCESS,
\* every reservation of it has been restored.
C12_CompensationAlways ==
  \A o \in OrderIds :
    (Created(o) /\ ~Busy(o) /\ orders[o].status # "PAYMENT_SUCCESS")
      => restored[o] >= reserved[o]

\* C13: createOrder goes past its checks only when the requested quantity is
\* at most the stock; otherwise it throws before saving, reserving or
\* dispatching anything.
C13_Step ==
  \A p \in Procs :
    (pc[p] = "idle" /\ pc'[p] = "c_saveNew") => qty'[p] <= stock
C13_InsufficientNoEffect == [][C13_Step]_vars
\* a createOrder call can be made for more than the stock
C13_Witness ==
  /\ nextOrder <= MaxOrders
  /\ (nextOrder - 1) + retries < MaxCalls
  /\ \E p \in Procs : pc[p] = "idle"
  /\ \E q \in Qtys : q > stock
  /\ \E o \in OrderIds : reserved[o] > 0

\* the steps of createOrder after paymentCircuitBreaker.fire resolved
CreateAfterFire == {"c_saveFinal", "c_incRead", "c_incWrite"}

\* a createOrder call past its dispatch returns, normally or by an exception
CreateReturns(p) == pc[p] \in CreateAfterFire /\ pc'[p] = "idle"

\* C14: when a createOrder call whose dispatch returned SUCCESS returns, its
\* order is PAYMENT_SUCCESS with the returned payment id and totalAmount =
\* unitPrice * quantity, and the order's stock reservation is held exactly once.
C14_Step ==
  \A p \in Procs :
    (CreateReturns(p) /\ reply[p].status = "SUCCESS")
      => LET o == ord[p] IN
           /\ orders'[o].status = "PAYMENT_SUCCESS"
           /\ orders'[o].paymentId = reply[p].paymentId
           /\ orders'[o].totalAmount = orders'[o].unitPrice * orders'[o].quantity
           /\ reserved'[o] = 1
           /\ restored'[o] = 0
C14_SuccessEffect == [][C14_Step]_vars

\* C15: when a createOrder call whose dispatch did not return SUCCESS returns,
\* its order is PAYMENT_FAILED and its reservation has been restored exactly once.
C15_Step ==
  \A p \in Procs :
    (CreateReturns(p) /\ reply[p].status # "SUCCESS")
      => LET o == ord[p] IN
           /\ orders'[o].status = "PAYMENT_FAILED"
           /\ reserved'[o] = 1
           /\ restored'[o] = 1
C15_FailureRestores == [][C15_Step]_vars

\* C16: after a failed dispatch, createOrder has sent exactly one dead-letter
\* envelope for the order, with attemptCount 1.
C16_DeadLetterOnFailure ==
  \A p \in Procs :
    pc[p] \in {"c_incRead", "c_incWrite"}
      => /\ Cardinality({e \in dlq : e.order = ord[p]}) = 1
         /\ \A e \in dlq : e.order = ord[p] => e.attemptCount = 1

\* C17: retryPayment goes past its status check only for a PAYMENT_FAILED
\* order; any other status throws with no side effect.
C17_Step ==
  \A p \in Procs :
    (pc[p] = "idle" /\ pc'[p] = "r_validate") => orders[ord'[p]].status = "PAYMENT_FAILED"
C17_OnlyFailedRetried == [][C17_Step]_vars
\* a retry can be requested for an order in another status
C17_Witness ==
  /\ retries < MaxRetries
  /\ (nextOrder - 1) + retries < MaxCalls
  /\ \E p \in Procs : pc[p] = "idle"
  /\ \E o \in OrderIds : orders[o].status \in {"PENDING", "PAYMENT_PROCESSING", "PAYMENT_SUCCESS"}

\* C18: a retry whose order quantity exceeds the stock at its stock check
\* throws there: nothing is reserved, saved or dispatched.
C18_Step ==
  \A p \in Procs :
    (pc[p] = "r_validate" /\ pc'[p] # "r_validate" /\ stock < qty[p])
      => /\ pc'[p] = "idle"
         /\ UNCHANGED <<stock, orders, payments, dlq, reserved>>
C18_RetryInsufficientNoEffect == [][C18_Step]_vars
C18_Witness == \E p \in Procs : pc[p] = "r_validate" /\ stock < qty[p]

\* C19: a retry whose dispatch failed has submitted the request to the
\* dead-letter queue, as createOrder does.
C19_RetryLikeCreate ==
  \A p \in Procs :
    pc[p] \in {"r_incRead", "r_incWrite"} => \E e \in dlq : e.order = ord[p]

\* the first createBreaker call made with name n
FirstCallOf(n) ==
  regCalls[CHOOSE k \in 1..Len(regCalls) :
             /\ regCalls[k].name = n
             /\ \A j \in 1..(k - 1) : regCalls[j].name # n]

\* C26: one breaker instance per name: every createBreaker call with a name
\* returns the instance built by the first call with that name, built with
\* that first call's options and action.
C26_OneBreakerPerName ==
  /\ Len(instances) = Cardinality({regCalls[k].name : k \in 1..Len(regCalls)})
  /\ \A k \in 1..Len(regCalls) :
       LET f == FirstCallOf(regCalls[k].name) IN
         /\ regCalls[k].ret = f.ret
         /\ instances[f.ret] = [name |-> f.name, opts |-> f.opts]
C26_Witness ==
  \E j, k \in 1..Len(regCalls) :
    j < k /\ regCalls[j].name = regCalls[k].name /\ regCalls[j].opts # regCalls[k].opts

\* the rule as the claim states it: "Invalid" as a prefix, "Insufficient funds" exactly
StartsWith(s, t) == Len(s) >= Len(t) /\ SubSeq(s, 1, Len(t)) = t

\* C27 (as stated): an envelope is eligible iff attemptCount < 3, age < 1 h and
\* the reason neither starts with "Invalid" nor is "Insufficient funds".
C27_StatedPolicy ==
  pDecision # <<>> =>
    pDecision[1] = (/\ pAttempt < 3
                 /\ pAge < 3600000
                 /\ ~StartsWith(pReason, "Invalid")
                 /\ pReason # "Insufficient funds")

\* C27 (corrected): an envelope is eligible iff attemptCount < 3, age < 1 h and
\* the reason contains neither "Invalid" nor "Insufficient" anywhere (case-sensitive).
C27_RetryEligibility ==
  pDecision # <<>> =>
    pDecision[1] = (/\ pAttempt < 3
                 /\ pAge < 3600000
                 /\ ~Includes(pReason, "Invalid")
                 /\ ~Includes(pReason, "Insufficient"))
C27_Witness ==
  /\ pDecision = <<FALSE>>
  /\ pAttempt < 3
  /\ pAge < 3600000
  /\ pReason \in {"Card Invalid", "Insufficient stock"}

\* C32: however many reprocess calls are made for an order, the order is
\* re-dispatched at most once, and a reprocess call re-reserves no stock and
\* dispatches no payment request.
C32_Step ==
  \A o \in OrderIds :
    reprocessCalls'[o] # reprocessCalls[o]
      => UNCHANGED <<stock, reserved, payments, inflight, reply, dlq>>
C32_NoDoubleRedispatch ==
  /\ [](\A o \in OrderIds : redispatched[o] <= 1)
  /\ [][C32_Step]_vars
C32_Witness ==
  /\ reprocessCalls[ReprocessOrder] = MaxReprocess
  /\ orders[ReprocessOrder].status = "PAYMENT_FAILED"

\* C33: every delivery to the payment service is settled exactly once, by an ack
\* or a reject without requeue; a handled delivery is never left unsettled and
\* requeue is never used.
C33_SettledOnce ==
  \A d \in Deliveries :
    /\ Len(settle[d]) <= 1
    /\ \A i \in 1..Len(settle[d]) : settle[d][i] \in {"ack", "reject"}
    /\ (pdPhase[d] = "done") = (Len(settle[d]) = 1)
C33_Witness ==
  \E d1, d2 \in Deliveries :
    /\ pdKind[d1] = "dlq_envelope" /\ settle[d1] = <<"ack">>
    /\ pdKind[d2] = "process_payment" /\ settle[d2] = <<"reject">>

\* C34: an order whose final status is PAYMENT_FAILED, with its stock restored,
\* has no SUCCESS payment record.
C34_StoresConsistent ==
  \A o \in OrderIds :
    (/\ Created(o) /\ ~Busy(o)
     /\ orders[o].status = "PAYMENT_FAILED"
     /\ reserved[o] > 0 /\ restored[o] >= reserved[o])
      => NSuccess(o) = 0

\* C37: every SUCCESS payment record of an order matches a reservation of that
\* order that is still held (more decrements than restores).
C37_SuccessHasHeldReservation ==
  \A o \in OrderIds : NSuccess(o) > 0 => reserved[o] > restored[o]

\* C38: within one retryPayment call, incrementStock writes only after the same
\* call's decrementStock succeeded.
C38_Step ==
  \A p \in Procs :
    (pc[p] \in {"r_incWrite", "r_catchIncWrite"} /\ restored'[ord[p]] # restored[ord[p]])
      => decOk[p]
C38_RestoreOnlyAfterReserve == [][C38_Step]_vars

====
